---- MODULE Spec2Model ----
(***************************************************************************)
(* Model of the RTP session / channel layer of psimedia                    *)
(* (src/psimedia/psimedia.cpp): RtpChannelPrivate, RtpChannel,             *)
(* RtpSessionPrivate and RtpSession, driven by a caller and by a provider  *)
(* whose RtpSessionContext / RtpChannelContext objects                     *)
(* (src/psimediaprovider.h) raise notifications; of the provider registry  *)
(* (provider, loadPlugin, cleanupProvider); and of the value types         *)
(* converted across the provider interface.                                *)
(***************************************************************************)
EXTENDS Integers, Sequences, FiniteSets, TLC

\* ------------------------------------------------------------- bounds
\* channel contexts the provider may create over a run
MaxCtx == 4
\* readyRead connections a caller holds on one channel at a time
MaxListeners == 2
\* packets a channel context holds for reading
MaxAvail == 1
\* readyReadListeners is not initialised by RtpChannelPrivate's constructor:
\* its first value is any int; the model draws it from -UninitSpan..UninitSpan
UninitSpan == 1

\* providers created and QPluginLoaders opened over a run
MaxProviders == 2
MaxLoaders == 2
\* statically linked plugin instances QPluginLoader::staticInstances() lists
MaxStatic == 2
\* parameters in a PayloadInfo's list
MaxParams == 2
MaxLookups == 2

NULL == 0
Ctx == 1..MaxCtx
Channels == {"audio", "video"}
Signals == {"readyRead", "packetsWritten"}
Packets == {"p1", "p2"}
UninitValues == (0 - UninitSpan)..UninitSpan

VARIABLES
    chan,        \* [Channels -> RtpChannelPrivate fields c, enabled, readyReadListeners]
    listeners,   \* [Channels -> connections held on RtpChannel::readyRead]
    conn,        \* <<x, ch>>: signals of context x are connected to channel ch's slots
    provCtx,     \* what RtpSessionContext::audioRtpChannel()/videoRtpChannel() return
    nextCtx,     \* next context the provider allocates
    alive,       \* contexts not yet destroyed
    ctxEnabled,  \* per context: value of the last setEnabled it received
    ctxAvail,    \* per context: packetsAvailable()
    phase,       \* last lifecycle notification the session handled
    wrote,       \* [Channels -> a write was forwarded since enabled was last cleared]
    calls,       \* provider calls made by the last step, in order
    emitted,     \* signal the last step emitted to the caller, with the channels then
    ret,         \* value the last caller operation returned
    last,        \* the last step: operation, channel and argument
    given,       \* the channel contexts the session context returned at the last
                 \* started, while the session is started
    world,       \* g_provider, g_pluginLoader, the routines registered for exit and
                 \* the providers and plugin loaders created so far
    statics,     \* QPluginLoader::staticInstances(), by kind of instance
    proc,        \* the process: running, exited, or stopped by a fault
    thr,         \* per thread: where it is inside loadPlugin / provider()
    lout,        \* the last registry operation, its argument and what it returned
    ghost,       \* isSupported() has returned true; unloadPlugin() was called; runs
                 \* of the exit routine
    valop,       \* the last operation on parameter values: its operands and result
    feat,        \* Features::Private: the five member lists, where run() is, and
                 \* what the caller's last accessor returned
    reb          \* one channel's fields while setContext runs statement by
                 \* statement, and what a caller operation found in them

\* the RTP session and its channels
rtpVars == <<chan, listeners, conn, provCtx, nextCtx, alive, ctxEnabled, ctxAvail,
             phase, wrote, calls, emitted, ret, last, given>>
\* the provider registry
registryVars == <<world, statics, proc, thr, lout, ghost>>
\* the value types carried across the provider interface
valueVars == <<valop>>
\* the capability query and a rebinding in progress
stepVars == <<feat, reb>>

vars == <<rtpVars, registryVars, valueVars, stepVars>>

NoSignal == [sig |-> "none", src |-> "none", chan |-> <<>>]
\* values returned to the caller: nothing, a packet count, a packet read (n = 0
\* for the null RtpPacket)
NoRet == [t |-> "none", n |-> 0]
Count(k) == [t |-> "count", n |-> k]
NullPacket == [t |-> "packet", n |-> 0]
Packet == [t |-> "packet", n |-> 1]

\* the RtpSessionContext, as the target of a call
SessionCtx == NULL - 1

Call(x, op, arg) == [ctx |-> x, op |-> op, arg |-> arg]

\* ------------------------------------------------- RtpChannelPrivate
\* RtpChannelPrivate::RtpChannelPrivate: c(0), enabled(false); readyReadListeners
\* is left uninitialised
RtpChannelPrivate(garbage) ==
    [c |-> NULL, enabled |-> FALSE, readyReadListeners |-> garbage]

\* setContext that binds without looking at readyReadListeners
setContext_noEnable(d, _c) ==
    LET d1 == IF d.c # NULL THEN [d EXCEPT !.enabled = FALSE, !.c = NULL] ELSE d
    IN  IF _c = NULL
        THEN [d |-> d1, calls |-> <<>>, disc |-> d.c, con |-> NULL]
        ELSE [d |-> [d1 EXCEPT !.c = _c], calls |-> <<>>, disc |-> d.c, con |-> _c]

\* RtpChannelPrivate::setContext(_c) on fields d: the fields after, the provider
\* calls made, the context whose signals were disconnected and the one connected
setContext(d, _c) ==
    LET d1 == IF d.c # NULL THEN [d EXCEPT !.enabled = FALSE, !.c = NULL] ELSE d
        d2 == [d1 EXCEPT !.c = _c]
    IN  IF _c = NULL
        THEN [d |-> d1, calls |-> <<>>, disc |-> d.c, con |-> NULL]
        ELSE IF d2.readyReadListeners > 0
             THEN [d |-> [d2 EXCEPT !.enabled = TRUE],
                   calls |-> <<Call(_c, "setEnabled", TRUE)>>,
                   disc |-> d.c, con |-> _c]
             ELSE [d |-> d2, calls |-> <<>>, disc |-> d.c, con |-> _c]

\* c_destroyed that clears the binding only
c_destroyed_keepsEnabled(d) == [d EXCEPT !.c = NULL]

\* RtpChannelPrivate::c_destroyed
c_destroyed(d) == [d EXCEPT !.enabled = FALSE, !.c = NULL]

\* the last setEnabled each context received, after the calls cs
RECURSIVE ApplyCalls(_, _)
ApplyCalls(en, cs) ==
    IF cs = <<>> THEN en
    ELSE LET h == Head(cs)
         IN  ApplyCalls(IF h.op = "setEnabled" THEN [en EXCEPT ![h.ctx] = h.arg] ELSE en,
                        Tail(cs))

\* ------------------------------------------------------- RtpChannel
\* packetsAvailable that asks the context the session context hands out when
\* the channel is unbound
packetsAvailable_askProvider(d) ==
    IF d.c # NULL
    THEN [ret |-> Count(ctxAvail[d.c]), calls |-> <<Call(d.c, "packetsAvailable", NULL)>>]
    ELSE IF \E ch \in Channels : provCtx[ch] # NULL
         THEN LET x == provCtx[CHOOSE ch \in Channels : provCtx[ch] # NULL]
              IN  [ret |-> Count(ctxAvail[x]), calls |-> <<Call(x, "packetsAvailable", NULL)>>]
         ELSE [ret |-> Count(0), calls |-> <<>>]

\* RtpChannel::packetsAvailable on fields d: the value returned and the calls made
packetsAvailable(d) ==
    IF d.c # NULL
    THEN [ret |-> Count(ctxAvail[d.c]), calls |-> <<Call(d.c, "packetsAvailable", NULL)>>]
    ELSE [ret |-> Count(0), calls |-> <<>>]

\* RtpChannel::read: RtpPacket(pp.rawValue, pp.portOffset) of what the context
\* hands over, or the null RtpPacket()
read(d) ==
    IF d.c # NULL
    THEN [ret |-> Packet, calls |-> <<Call(d.c, "read", NULL)>>]
    ELSE [ret |-> NullPacket, calls |-> <<>>]

\* write that forwards the packet before it enables the context
write_forwardsFirst(d, rtp) ==
    IF d.c # NULL
    THEN IF ~d.enabled
         THEN [d |-> [d EXCEPT !.enabled = TRUE],
               calls |-> <<Call(d.c, "write", rtp), Call(d.c, "setEnabled", TRUE)>>]
         ELSE [d |-> d, calls |-> <<Call(d.c, "write", rtp)>>]
    ELSE [d |-> d, calls |-> <<>>]

\* RtpChannel::write
write(d, rtp) ==
    IF d.c # NULL
    THEN IF ~d.enabled
         THEN [d |-> [d EXCEPT !.enabled = TRUE],
               calls |-> <<Call(d.c, "setEnabled", TRUE), Call(d.c, "write", rtp)>>]
         ELSE [d |-> d, calls |-> <<Call(d.c, "write", rtp)>>]
    ELSE [d |-> d, calls |-> <<>>]

\* connectNotify that enables on every subscription, not on the first only
connectNotify_everyTime(d, signal) ==
    LET d1 == IF signal = "readyRead"
              THEN [d EXCEPT !.readyReadListeners = @ + 1] ELSE d
    IN  IF d1.c # NULL /\ d1.readyReadListeners > 0
        THEN [d |-> [d1 EXCEPT !.enabled = TRUE],
              calls |-> <<Call(d1.c, "setEnabled", TRUE)>>]
        ELSE [d |-> d1, calls |-> <<>>]

\* RtpChannel::connectNotify
connectNotify(d, signal) ==
    LET oldtotal == d.readyReadListeners
        d1 == IF signal = "readyRead"
              THEN [d EXCEPT !.readyReadListeners = @ + 1] ELSE d
        total == d1.readyReadListeners
    IN  IF d1.c # NULL /\ oldtotal = 0 /\ total > 0
        THEN [d |-> [d1 EXCEPT !.enabled = TRUE],
              calls |-> <<Call(d1.c, "setEnabled", TRUE)>>]
        ELSE [d |-> d1, calls |-> <<>>]

\* RtpChannel::disconnectNotify
disconnectNotify(d, signal) ==
    LET oldtotal == d.readyReadListeners
        d1 == IF signal = "readyRead"
              THEN [d EXCEPT !.readyReadListeners = @ - 1] ELSE d
        total == d1.readyReadListeners
    IN  IF d1.c # NULL /\ oldtotal > 0 /\ total = 0
        THEN [d |-> [d1 EXCEPT !.enabled = FALSE],
              calls |-> <<Call(d1.c, "setEnabled", FALSE)>>]
        ELSE [d |-> d1, calls |-> <<>>]

\* ------------------------------------------------- RtpSessionPrivate
\* the two setContext calls every lifecycle handler starts with
Rebind(ch2, a, v) ==
    LET ra == setContext(ch2["audio"], a)
        rv == setContext(ch2["video"], v)
    IN  [chan |-> [audio |-> ra.d, video |-> rv.d],
         calls |-> ra.calls \o rv.calls,
         disc |-> {<<ra.disc, "audio">>, <<rv.disc, "video">>},
         con |-> {<<ra.con, "audio">>, <<rv.con, "video">>}]

Emit(sig, src, ch2) == [sig |-> sig, src |-> src, chan |-> ch2]

\* c_started that leaves a channel that is already bound as it is
c_started_keepsBound(ch2, pc) ==
    LET r == Rebind(ch2,
                    IF ch2["audio"].c # NULL THEN ch2["audio"].c ELSE pc["audio"],
                    IF ch2["video"].c # NULL THEN ch2["video"].c ELSE pc["video"])
    IN  [r |-> r, emitted |-> Emit("started", "session", r.chan)]

\* RtpSessionPrivate::c_started: ch2 the two channels, pc what the session
\* context returns from audioRtpChannel() / videoRtpChannel()
c_started(ch2, pc) ==
    LET r == Rebind(ch2, pc["audio"], pc["video"])
    IN  [r |-> r, emitted |-> Emit("started", "session", r.chan)]

\* c_stopped that emits stopped before it unbinds the channels
c_stopped_emitsFirst(ch2) ==
    LET r == Rebind(ch2, NULL, NULL)
    IN  [r |-> r, emitted |-> Emit("stopped", "session", ch2)]

\* RtpSessionPrivate::c_stopped
c_stopped(ch2) ==
    LET r == Rebind(ch2, NULL, NULL)
    IN  [r |-> r, emitted |-> Emit("stopped", "session", r.chan)]

\* RtpSessionPrivate::c_finished
c_finished(ch2) ==
    LET r == Rebind(ch2, NULL, NULL)
    IN  [r |-> r, emitted |-> Emit("finished", "session", r.chan)]

\* c_error that takes only the audio channel off its context
c_error_unbindsAudioOnly(ch2) ==
    LET r == Rebind(ch2, NULL, ch2["video"].c)
    IN  [r |-> r, emitted |-> Emit("error", "session", r.chan)]

\* RtpSessionPrivate::c_error
c_error(ch2) ==
    LET r == Rebind(ch2, NULL, NULL)
    IN  [r |-> r, emitted |-> Emit("error", "session", r.chan)]

\* --------------------------------------------------- provider registry
\* what a plugin binary or a static instance turns out to be: "missing" cannot
\* be opened, "foreign" is not a PsiMedia::Plugin, "barren" has createProvider()
\* return 0, "failing" has Provider::init() return false, "good" initialises
PluginKinds == {"missing", "foreign", "barren", "failing", "good"}
StaticKinds == PluginKinds \ {"missing"}
StaticLists == UNION {[1..n -> StaticKinds] : n \in 0..MaxStatic}

\* a provider: calls of init() on it, times it was deleted, whether it has been
\* g_provider, and the QPluginLoader whose module it came from
NoProvider == [inits |-> 0, deletes |-> 0, active |-> FALSE, module |-> NULL]
\* a QPluginLoader: whether its module is mapped, times it was deleted
NoLoader == [loaded |-> FALSE, deletes |-> 0]

\* g_provider(0), g_pluginLoader(0), nothing registered with qAddPostRoutine,
\* no provider made and no loader opened; provs and loaders list the providers
\* and loaders in the order they were created
World0 ==
    [g_provider |-> NULL, g_pluginLoader |-> NULL, postRoutines |-> 0,
     made |-> 0, opened |-> 0, provs |-> <<>>, loaders |-> <<>>]

\* provider(), lines 128-155: the first static instance that is a Plugin and
\* whose createProvider() yields a provider, or 0
RECURSIVE FirstYielding(_, _)
FirstYielding(list, i) ==
    IF i > Len(list) THEN 0
    ELSE IF list[i] \in {"failing", "good"} THEN i
         ELSE FirstYielding(list, i + 1)

\* provider() that keeps a provider whose init() failed
provider_acquire_keepsFailed(w, list) ==
    LET i == FirstYielding(list, 1)
        p == w.made + 1
        w1 == [w EXCEPT !.made = p,
                        !.provs = Append(@, [NoProvider EXCEPT !.inits = 1])]
    IN  IF i = 0 THEN [w |-> w, ret |-> NULL]
        ELSE IF list[i] = "failing"
             THEN [w |-> w1, ret |-> NULL]
             ELSE [w |-> [w1 EXCEPT !.g_provider = p, !.provs[p].active = TRUE,
                                    !.postRoutines = @ + 1],
                   ret |-> p]

\* provider() from the point where it has found g_provider null
provider_acquire(w, list) ==
    LET i == FirstYielding(list, 1)
        p == w.made + 1
        w1 == [w EXCEPT !.made = p,
                        !.provs = Append(@, [NoProvider EXCEPT !.inits = 1])]
    IN  IF i = 0 THEN [w |-> w, ret |-> NULL]
        ELSE IF list[i] = "failing"
             THEN [w |-> [w1 EXCEPT !.provs[p].deletes = @ + 1], ret |-> NULL]
             ELSE [w |-> [w1 EXCEPT !.g_provider = p, !.provs[p].active = TRUE,
                                    !.postRoutines = @ + 1],
                   ret |-> p]

\* provider(): the registry after and the pointer returned
provider(w, list) ==
    IF w.g_provider = NULL THEN provider_acquire(w, list)
    ELSE [w |-> w, ret |-> w.g_provider]

\* isSupported that answers from g_provider without trying to acquire
isSupported_noAcquire(w, list) ==
    [w |-> w, ret |-> IF w.g_provider # NULL THEN "true" ELSE "false"]

\* isSupported()
isSupported(w, list) ==
    LET r == provider(w, list)
    IN  [w |-> r.w, ret |-> IF r.ret # NULL THEN "true" ELSE "false"]

\* loadPlugin whose failed init() leaves the provider and the loader behind
loadPlugin_attempt_leaks(w, fname) ==
    LET l == w.opened + 1
        w1 == [w EXCEPT !.opened = l, !.loaders = Append(@, NoLoader)]
        w2 == [w1 EXCEPT !.loaders[l].loaded = TRUE]
        p == w2.made + 1
        w3 == [w2 EXCEPT !.made = p,
                         !.provs = Append(@, [NoProvider EXCEPT !.inits = 1,
                                                                !.module = l])]
    IN  CASE fname = "missing" ->
               [w |-> [w1 EXCEPT !.loaders[l].deletes = @ + 1], ret |-> "ErrorLoad"]
          [] fname = "foreign" ->
               [w |-> [w2 EXCEPT !.loaders[l].deletes = @ + 1], ret |-> "ErrorVersion"]
          [] fname = "barren" ->
               [w |-> [w2 EXCEPT !.loaders[l].loaded = FALSE,
                                 !.loaders[l].deletes = @ + 1],
                ret |-> "ErrorInit"]
          [] fname = "failing" ->
               [w |-> [w3 EXCEPT !.g_pluginLoader = l], ret |-> "ErrorInit"]
          [] OTHER ->
               [w |-> [w3 EXCEPT !.g_provider = p, !.g_pluginLoader = l,
                                 !.provs[p].active = TRUE, !.postRoutines = @ + 1],
                ret |-> "PluginSuccess"]

\* loadPlugin(fname, resourcePath) from the point where it has found g_provider
\* null, lines 171-204; a module that is not a PsiMedia::Plugin stays mapped
\* when its loader is deleted
loadPlugin_attempt(w, fname) ==
    LET l == w.opened + 1
        w1 == [w EXCEPT !.opened = l, !.loaders = Append(@, NoLoader)]
        w2 == [w1 EXCEPT !.loaders[l].loaded = TRUE]
        p == w2.made + 1
        w3 == [w2 EXCEPT !.made = p,
                         !.provs = Append(@, [NoProvider EXCEPT !.inits = 1,
                                                                !.module = l])]
    IN  CASE fname = "missing" ->
               [w |-> [w1 EXCEPT !.loaders[l].deletes = @ + 1], ret |-> "ErrorLoad"]
          [] fname = "foreign" ->
               [w |-> [w2 EXCEPT !.loaders[l].deletes = @ + 1], ret |-> "ErrorVersion"]
          [] fname = "barren" ->
               [w |-> [w2 EXCEPT !.loaders[l].loaded = FALSE,
                                 !.loaders[l].deletes = @ + 1],
                ret |-> "ErrorInit"]
          [] fname = "failing" ->
               [w |-> [w3 EXCEPT !.provs[p].deletes = @ + 1,
                                 !.loaders[l].loaded = FALSE,
                                 !.loaders[l].deletes = @ + 1],
                ret |-> "ErrorInit"]
          [] OTHER ->
               [w |-> [w3 EXCEPT !.g_provider = p, !.g_pluginLoader = l,
                                 !.provs[p].active = TRUE, !.postRoutines = @ + 1],
                ret |-> "PluginSuccess"]

\* loadPlugin that goes through the attempt whether or not a provider is active
loadPlugin_always(w, fname) == loadPlugin_attempt(w, fname)

\* loadPlugin(fname, resourcePath)
loadPlugin(w, fname) ==
    IF w.g_provider # NULL THEN [w |-> w, ret |-> "PluginSuccess"]
    ELSE loadPlugin_attempt(w, fname)

\* cleanupProvider that deletes the provider and leaves g_provider pointing at it
cleanupProvider_keepsPointer(w) ==
    IF w.g_provider = NULL THEN w
    ELSE LET w1 == [w EXCEPT !.provs[w.g_provider].deletes = @ + 1]
             l == w1.g_pluginLoader
         IN  IF l # NULL
             THEN [w1 EXCEPT !.loaders[l].loaded = FALSE, !.loaders[l].deletes = @ + 1,
                             !.g_pluginLoader = NULL]
             ELSE w1

\* cleanupProvider()
cleanupProvider(w) ==
    IF w.g_provider = NULL THEN w
    ELSE LET w1 == [w EXCEPT !.provs[w.g_provider].deletes = @ + 1, !.g_provider = NULL]
             l == w1.g_pluginLoader
         IN  IF l # NULL
             THEN [w1 EXCEPT !.loaders[l].loaded = FALSE, !.loaders[l].deletes = @ + 1,
                             !.g_pluginLoader = NULL]
             ELSE w1

\* unloadPlugin()
unloadPlugin(w) == cleanupProvider(w)

\* QCoreApplication running the routines registered with qAddPostRoutine: n
\* registrations of cleanupProvider
RECURSIVE PostRoutines(_, _)
PostRoutines(w, n) == IF n = 0 THEN w ELSE PostRoutines(cleanupProvider(w), n - 1)

\* what a call through a null Provider pointer can come to: the process stops
\* on a fault, or the call returns some string
NullCallOutcomes == {"fault", "", "?"}

\* creditName() / creditText() / RtpSessionPrivate's constructor: provider()
\* and a call through what it returned; text is what a provider answers
ThroughProvider(w, list, text) ==
    LET r == provider(w, list)
    IN  [w |-> r.w, rets |-> IF r.ret = NULL THEN NullCallOutcomes ELSE {text}]

\* threads that may be inside loadPlugin / provider() at once
Threads == {"t1", "t2"}
Idle == [pc |-> "idle", fname |-> "none"]

\* ------------------------------------------------------- value types
\* AudioParams::Private(): sampleRate(0), sampleSize(0), channels(0)
AudioParams0 ==
    [class |-> "AudioParams", codec |-> "", sampleRate |-> 0, sampleSize |-> 0,
     channels |-> 0]

\* QSize(): an invalid size
QSize0 == [w |-> 0 - 1, h |-> 0 - 1]

\* VideoParams::Private(): fps(0)
VideoParams0 == [class |-> "VideoParams", codec |-> "", size |-> QSize0, fps |-> 0]

\* PayloadInfo::Private(): id, clockrate, channels, ptime, maxptime all -1
PayloadInfo0 ==
    [class |-> "PayloadInfo", id |-> 0 - 1, name |-> "", clockrate |-> 0 - 1,
     channels |-> 0 - 1, ptime |-> 0 - 1, maxptime |-> 0 - 1, parameters |-> <<>>]

importAudioParams(pp) ==
    [AudioParams0 EXCEPT !.codec = pp.codec, !.sampleRate = pp.sampleRate,
                         !.sampleSize = pp.sampleSize, !.channels = pp.channels]

exportAudioParams(p) ==
    [class |-> "PAudioParams", codec |-> p.codec, sampleRate |-> p.sampleRate,
     sampleSize |-> p.sampleSize, channels |-> p.channels]

importVideoParams(pp) ==
    [VideoParams0 EXCEPT !.codec = pp.codec, !.size = pp.size, !.fps = pp.fps]

exportVideoParams(p) ==
    [class |-> "PVideoParams", codec |-> p.codec, size |-> p.size, fps |-> p.fps]

\* the foreach loops of importPayloadInfo / exportPayloadInfo: list += i for
\* each parameter in turn
RECURSIVE CopyParameters(_, _, _)
CopyParameters(from, to, class) ==
    IF from = <<>> THEN to
    ELSE CopyParameters(Tail(from),
                        Append(to, [class |-> class, name |-> Head(from).name,
                                    value |-> Head(from).value]),
                        class)

\* importPayloadInfo that prepends each parameter it copies
importPayloadInfo_reversed(pp) ==
    LET RECURSIVE Rev(_)
        Rev(s) == IF s = <<>> THEN <<>> ELSE Append(Rev(Tail(s)), Head(s))
    IN  [PayloadInfo0 EXCEPT !.id = pp.id, !.name = pp.name, !.clockrate = pp.clockrate,
                             !.channels = pp.channels, !.ptime = pp.ptime,
                             !.maxptime = pp.maxptime,
                             !.parameters = Rev(CopyParameters(pp.parameters, <<>>,
                                                               "PayloadInfo::Parameter"))]

importPayloadInfo(pp) ==
    [PayloadInfo0 EXCEPT !.id = pp.id, !.name = pp.name, !.clockrate = pp.clockrate,
                         !.channels = pp.channels, !.ptime = pp.ptime,
                         !.maxptime = pp.maxptime,
                         !.parameters = CopyParameters(pp.parameters, <<>>,
                                                       "PayloadInfo::Parameter")]

exportPayloadInfo(p) ==
    [class |-> "PPayloadInfo", id |-> p.id, name |-> p.name, clockrate |-> p.clockrate,
     channels |-> p.channels, ptime |-> p.ptime, maxptime |-> p.maxptime,
     parameters |-> CopyParameters(p.parameters, <<>>, "PPayloadInfo::Parameter")]

\* AudioParams::operator==
AudioParamsEq(a, b) ==
    /\ a.codec = b.codec
    /\ a.sampleRate = b.sampleRate
    /\ a.sampleSize = b.sampleSize
    /\ a.channels = b.channels

\* VideoParams::operator==
VideoParamsEq(a, b) ==
    /\ a.codec = b.codec
    /\ a.size = b.size
    /\ a.fps = b.fps

\* PayloadInfo::Parameter::operator==
ParameterEq(a, b) == a.name = b.name /\ a.value = b.value

\* QList::contains
Contains(list, p) == \E i \in 1..Len(list) : ParameterEq(list[i], p)

\* PayloadInfo::Private::compareUnordered
compareUnordered(a, b) ==
    IF Len(a) # Len(b) THEN FALSE
    ELSE \A i \in 1..Len(a) : Contains(b, a[i])

\* PayloadInfo::operator== / PayloadInfo::Private::operator==
PayloadInfoEq(a, b) ==
    /\ a.id = b.id
    /\ a.name = b.name
    /\ a.clockrate = b.clockrate
    /\ a.channels = b.channels
    /\ a.ptime = b.ptime
    /\ a.maxptime = b.maxptime
    /\ compareUnordered(a.parameters, b.parameters)

\* the import of a provider-side value, the export of an application-side one
Import(y) ==
    CASE y.class = "PAudioParams" -> importAudioParams(y)
      [] y.class = "PVideoParams" -> importVideoParams(y)
      [] y.class = "PPayloadInfo" -> importPayloadInfo(y)

Export(x) ==
    CASE x.class = "AudioParams" -> exportAudioParams(x)
      [] x.class = "VideoParams" -> exportVideoParams(x)
      [] x.class = "PayloadInfo" -> exportPayloadInfo(x)

\* operator== of the application-side class of x
Equal(x, z) ==
    CASE x.class = "AudioParams" -> AudioParamsEq(x, z)
      [] x.class = "VideoParams" -> VideoParamsEq(x, z)
      [] x.class = "PayloadInfo" -> PayloadInfoEq(x, z)

\* the values the operations are applied to
AudioValues ==
    {[AudioParams0 EXCEPT !.codec = c, !.sampleRate = r, !.sampleSize = s, !.channels = n] :
        c \in {"", "speex"}, r \in {0, 8000}, s \in {0, 16}, n \in {1, 2}}

VideoValues ==
    {[VideoParams0 EXCEPT !.codec = c, !.size = z, !.fps = f] :
        c \in {"", "theora"}, z \in {QSize0, [w |-> 320, h |-> 240]}, f \in {0, 15}}

ParameterValues ==
    {[class |-> "PayloadInfo::Parameter", name |-> n, value |-> v] :
        n \in {"mode", "MODE"}, v \in {"1", "2"}} \ 
    {[class |-> "PayloadInfo::Parameter", name |-> "MODE", value |-> "2"]}

ParameterLists == UNION {[1..n -> ParameterValues] : n \in 0..MaxParams}

\* a payload and the payloads that differ from it in one scalar field
Payload1 ==
    [PayloadInfo0 EXCEPT !.id = 96, !.name = "speex", !.clockrate = 8000,
                         !.channels = 1, !.ptime = 20, !.maxptime = 40]

PayloadScalars ==
    {PayloadInfo0, Payload1,
     [Payload1 EXCEPT !.id = 97], [Payload1 EXCEPT !.name = "SPEEX"],
     [Payload1 EXCEPT !.clockrate = 16000], [Payload1 EXCEPT !.channels = 2],
     [Payload1 EXCEPT !.ptime = 30], [Payload1 EXCEPT !.maxptime = 60]}

PayloadValues ==
    {[s EXCEPT !.parameters = l] : s \in PayloadScalars, l \in ParameterLists}

\* a value operation not yet applied: operand a, and for PayloadInfo a second
\* operand b to compare a with
NoValue == [class |-> "none"]
ValueIdle == [op |-> "none", a |-> NoValue, b |-> NoValue, out |-> NoValue, same |-> FALSE]
ValueInputs ==
    {[op |-> "none", a |-> x, b |-> NoValue, out |-> NoValue, same |-> FALSE] :
        x \in AudioValues \cup VideoValues \cup {Export(x1) : x1 \in AudioValues \cup VideoValues}}
    \cup
    {[op |-> "none", a |-> x, b |-> z, out |-> NoValue, same |-> FALSE] :
        x \in PayloadValues, z \in PayloadValues}
    \cup
    {[op |-> "none", a |-> Export(x), b |-> NoValue, out |-> NoValue, same |-> FALSE] :
        x \in PayloadValues}
    \cup {ValueIdle}

\* ------------------------------------------------------------ Features
\* the member lists of Features::Private, in the order run() assigns them
FeatureLists == <<"audioOutputDevices", "audioInputDevices", "videoInputDevices",
                  "supportedAudioModes", "supportedVideoModes">>
FeatureNames == {FeatureLists[i] : i \in 1..Len(FeatureLists)}

\* a list is the number of the query whose answer it holds, NoQuery for the
\* empty list the constructor leaves
NoQuery == 0
\* an accessor call that did not return
Torn == NoQuery - 1

NoAccess == [name |-> "none", value |-> NoQuery, completed |-> NoQuery, running |-> FALSE]

\* Features::Features: an idle thread and five empty lists
Features0 ==
    [lists |-> [n \in FeatureNames |-> NoQuery], pc |-> 0, queries |-> 0,
     completed |-> 0, waited |-> "none", got |-> NoAccess]

\* Features::lookup: QThread::start(), which does nothing while run() is running
lookup(f) ==
    IF f.pc = 0 THEN [f EXCEPT !.pc = 1, !.queries = @ + 1] ELSE f

\* one statement of Features::Private::run: the next member list is assigned the
\* answer of the query under way; after the fifth the thread finishes
run_step(f) ==
    LET f1 == [f EXCEPT !.lists[FeatureLists[f.pc]] = f.queries]
    IN  IF f.pc < Len(FeatureLists)
        THEN [f1 EXCEPT !.pc = @ + 1]
        ELSE [f1 EXCEPT !.pc = 0, !.completed = f.queries]

\* what an accessor can return: the member as it is; for the member run() is
\* assigning at that moment, read with nothing ordering the two threads, the
\* list before, the list after, or no return at all
accessor(f, name) ==
    IF f.pc # 0 /\ FeatureLists[f.pc] = name
    THEN {f.lists[name], f.queries, Torn}
    ELSE {f.lists[name]}

\* Features::waitForFinished(msecs): QThread::wait, true when the thread is not
\* running, false when the time is up first
waitForFinished(f) == IF f.pc = 0 THEN "true" ELSE "false"

\* ------------------------------------------- setContext, by statement
NoSeen ==
    [op |-> "none", at |-> "idle", d |-> RtpChannelPrivate(0),
     old |-> RtpChannelPrivate(0), new |-> RtpChannelPrivate(0),
     issued |-> <<>>, owed |-> <<>>]

\* a channel with no setContext under way
RebIdle(garbage) ==
    [d |-> RtpChannelPrivate(garbage), pc |-> "idle", arg |-> NULL,
     from |-> RtpChannelPrivate(garbage), issued |-> <<>>, seen |-> NoSeen]

\* setContext that calls c->setEnabled(true) before it sets enabled
setContext_step_callsFirst(r) ==
    CASE r.pc = "detach" ->
            [r EXCEPT !.d = IF r.d.c # NULL
                            THEN [@ EXCEPT !.enabled = FALSE, !.c = NULL] ELSE @,
                      !.pc = IF r.arg = NULL THEN "idle" ELSE "attach"]
      [] r.pc = "attach" ->
            [r EXCEPT !.d.c = r.arg,
                      !.pc = IF r.d.readyReadListeners > 0 THEN "call" ELSE "idle"]
      [] r.pc = "call" ->
            [r EXCEPT !.issued = Append(@, Call(r.d.c, "setEnabled", TRUE)),
                      !.pc = "inEnable"]
      [] r.pc = "inEnable" -> [r EXCEPT !.pc = "flag"]
      [] r.pc = "flag" ->
            [r EXCEPT !.d.enabled = TRUE, !.issued = <<>>, !.pc = "idle"]

\* RtpChannelPrivate::setContext, one statement at a time: "detach" is the
\* if(c) block, "attach" c = _c and the three connects, "flag" enabled = true,
\* "call" the entry into c->setEnabled(true) and "inEnable" its return
setContext_step(r) ==
    CASE r.pc = "detach" ->
            [r EXCEPT !.d = IF r.d.c # NULL
                            THEN [@ EXCEPT !.enabled = FALSE, !.c = NULL] ELSE @,
                      !.pc = IF r.arg = NULL THEN "idle" ELSE "attach"]
      [] r.pc = "attach" ->
            [r EXCEPT !.d.c = r.arg,
                      !.pc = IF r.d.readyReadListeners > 0 THEN "flag" ELSE "idle"]
      [] r.pc = "flag" ->
            [r EXCEPT !.d.enabled = TRUE, !.pc = "call"]
      [] r.pc = "call" ->
            [r EXCEPT !.issued = Append(@, Call(r.d.c, "setEnabled", TRUE)),
                      !.pc = "inEnable"]
      [] r.pc = "inEnable" -> [r EXCEPT !.issued = <<>>, !.pc = "idle"]

\* where control is when an operation of the caller can run: in the event loop,
\* no handler of this layer being under way, or in the provider's setEnabled,
\* which this layer has called and which may raise readyRead before it returns.
\* The handlers and the caller's operations run on the thread the session object
\* lives on; the provider's signals reach the handlers through connections made
\* with the default connection type.
CallerRuns == {"idle", "inEnable"}

\* no lookup and no rebinding under way
Sequential == feat = Features0 /\ reb = RebIdle(0)

\* ------------------------------------------------------------- state
Init ==
    /\ chan \in [Channels -> {RtpChannelPrivate(g) : g \in UninitValues}]
    /\ listeners = [ch \in Channels |-> 0]
    /\ conn = {}
    /\ provCtx = [ch \in Channels |-> NULL]
    /\ nextCtx = 1
    /\ alive = {}
    /\ ctxEnabled = [x \in Ctx |-> FALSE]
    /\ ctxAvail = [x \in Ctx |-> 0]
    /\ phase = "idle"
    /\ wrote = [ch \in Channels |-> FALSE]
    /\ calls = <<>>
    /\ emitted = NoSignal
    /\ ret = NoRet
    /\ last = [op |-> "init", ch |-> "none", arg |-> NULL]
    /\ given = [ch \in Channels |-> NULL]
    /\ feat = Features0
    /\ reb \in {RebIdle(g) : g \in UninitValues}
    /\ world = World0
    /\ statics \in StaticLists
    /\ proc = "running"
    /\ thr = [t \in Threads |-> Idle]
    /\ lout = [op |-> "none", arg |-> "none", ret |-> "none"]
    /\ ghost = [supported |-> FALSE, unloaded |-> FALSE, teardowns |-> 0]
    /\ valop \in ValueInputs

\* ------------------------------------------- caller steps on a channel
ChPacketsAvailable(ch) ==
    LET r == packetsAvailable(chan[ch])
    IN  /\ ret' = r.ret
        /\ calls' = r.calls
        /\ emitted' = NoSignal
        /\ last' = [op |-> "packetsAvailable", ch |-> ch, arg |-> NULL]
        /\ UNCHANGED <<chan, listeners, conn, provCtx, nextCtx, alive, ctxEnabled,
                       ctxAvail, phase, wrote, given,
                   registryVars, valueVars, stepVars>>

ChRead(ch) ==
    LET r == read(chan[ch])
    IN  /\ ret' = r.ret
        /\ calls' = r.calls
        /\ ctxAvail' = [x \in Ctx |->
               IF \E i \in 1..Len(r.calls) : r.calls[i].ctx = x /\ r.calls[i].op = "read"
               THEN IF ctxAvail[x] > 0 THEN ctxAvail[x] - 1 ELSE 0
               ELSE ctxAvail[x]]
        /\ emitted' = NoSignal
        /\ last' = [op |-> "read", ch |-> ch, arg |-> NULL]
        /\ UNCHANGED <<chan, listeners, conn, provCtx, nextCtx, alive, ctxEnabled,
                       phase, wrote, given,
                   registryVars, valueVars, stepVars>>

ChWrite(ch, rtp) ==
    LET r == write(chan[ch], rtp)
    IN  /\ chan' = [chan EXCEPT ![ch] = r.d]
        /\ calls' = r.calls
        /\ ctxEnabled' = ApplyCalls(ctxEnabled, r.calls)
        /\ wrote' = [wrote EXCEPT ![ch] =
               IF \E i \in 1..Len(r.calls) : r.calls[i].op = "write" THEN TRUE ELSE @]
        /\ ret' = NoRet
        /\ emitted' = NoSignal
        /\ last' = [op |-> "write", ch |-> ch, arg |-> rtp]
        /\ UNCHANGED <<listeners, conn, provCtx, nextCtx, alive, ctxAvail, phase, given,
                   registryVars, valueVars, stepVars>>

\* QObject::connect on a signal of the channel: Qt calls connectNotify
ChConnect(ch, signal) ==
    LET r == connectNotify(chan[ch], signal)
    IN  /\ signal = "readyRead" => listeners[ch] < MaxListeners
        /\ listeners' = [listeners EXCEPT ![ch] = IF signal = "readyRead" THEN @ + 1 ELSE @]
        /\ chan' = [chan EXCEPT ![ch] = r.d]
        /\ calls' = r.calls
        /\ ctxEnabled' = ApplyCalls(ctxEnabled, r.calls)
        /\ ret' = NoRet
        /\ emitted' = NoSignal
        /\ last' = [op |-> "connectNotify", ch |-> ch, arg |-> signal]
        /\ UNCHANGED <<conn, provCtx, nextCtx, alive, ctxAvail, phase, wrote, given,
                   registryVars, valueVars, stepVars>>

\* QObject::disconnect of one connection on a signal of the channel: Qt calls
\* disconnectNotify
ChDisconnect(ch, signal) ==
    LET r == disconnectNotify(chan[ch], signal)
    IN  /\ signal = "readyRead" => listeners[ch] > 0
        /\ listeners' = [listeners EXCEPT ![ch] = IF signal = "readyRead" THEN @ - 1 ELSE @]
        /\ chan' = [chan EXCEPT ![ch] = r.d]
        /\ calls' = r.calls
        /\ ctxEnabled' = ApplyCalls(ctxEnabled, r.calls)
        /\ wrote' = [wrote EXCEPT ![ch] = IF chan[ch].enabled /\ ~r.d.enabled THEN FALSE ELSE @]
        /\ ret' = NoRet
        /\ emitted' = NoSignal
        /\ last' = [op |-> "disconnectNotify", ch |-> ch, arg |-> signal]
        /\ UNCHANGED <<conn, provCtx, nextCtx, alive, ctxAvail, phase, given,
                   registryVars, valueVars, stepVars>>

\* --------------------------------------------- provider notifications
\* the session runs lifecycle handler h (the result of c_started, c_stopped,
\* c_finished or c_error) for the provider notification sig
Lifecycle(sig, h) ==
    /\ chan' = h.r.chan
    /\ conn' = (conn \ h.r.disc) \cup {p \in h.r.con : p[1] # NULL}
    /\ calls' = h.r.calls
    /\ ctxEnabled' = ApplyCalls(ctxEnabled, h.r.calls)
    /\ wrote' = [ch \in Channels |-> IF chan[ch].c # NULL THEN FALSE ELSE wrote[ch]]
    /\ emitted' = h.emitted
    /\ phase' = sig
    /\ given' = IF sig = "started" THEN provCtx ELSE [ch \in Channels |-> NULL]
    /\ ret' = NoRet
    /\ last' = [op |-> sig, ch |-> "session", arg |-> NULL]
    /\ UNCHANGED <<listeners, provCtx, nextCtx, alive, ctxAvail,
                   registryVars, valueVars, stepVars>>

OnStarted == Lifecycle("started", c_started(chan, provCtx))
OnStopped == Lifecycle("stopped", c_stopped(chan))
OnFinished == Lifecycle("finished", c_finished(chan))
OnError == Lifecycle("error", c_error(chan))

\* RtpSessionPrivate::c_preferencesUpdated / c_audioInputIntensityChanged
OnPassThrough(sig) ==
    /\ emitted' = Emit(sig, "session", chan)
    /\ calls' = <<>>
    /\ ret' = NoRet
    /\ last' = [op |-> sig, ch |-> "session", arg |-> NULL]
    /\ UNCHANGED <<chan, listeners, conn, provCtx, nextCtx, alive, ctxEnabled,
                   ctxAvail, phase, wrote, given,
                   registryVars, valueVars, stepVars>>

\* RtpSession::start, stop and the other operations forwarded to d->c
Forwarded == {"start", "stop"}

SessionForward(op) ==
    /\ calls' = <<Call(SessionCtx, op, NULL)>>
    /\ emitted' = NoSignal
    /\ ret' = NoRet
    /\ last' = [op |-> op, ch |-> "session", arg |-> NULL]
    /\ UNCHANGED <<chan, listeners, conn, provCtx, nextCtx, alive, ctxEnabled,
                   ctxAvail, phase, wrote, given,
                   registryVars, valueVars, stepVars>>

\* the operations of RtpSession that control the session, start and stop among
\* them, and its configuration setters: each is one call on d->c
Controls == {"start", "updatePreferences", "transmitAudio", "transmitVideo",
             "pauseAudio", "pauseVideo", "stop"}
Setters == {"setAudioOutputDevice", "setVideoOutputWidget", "setAudioInputDevice",
            "setVideoInputDevice", "setFileInput", "setFileDataInput",
            "setVideoPreviewWidget", "setRecordingQIODevice",
            "setLocalAudioPreferences", "setLocalVideoPreferences",
            "setRemoteAudioPreferences", "setRemoteVideoPreferences"}

\* the RtpSessionContext method an RtpSession operation calls
ContextMethod(op) == IF op = "setRecordingQIODevice" THEN "setRecorder" ELSE op

\* a forward that also takes the channels off their contexts
SessionOperation_unbinds(op) ==
    LET r == Rebind(chan, NULL, NULL)
    IN  [chan |-> r.chan, calls |-> r.calls \o <<Call(SessionCtx, ContextMethod(op), NULL)>>,
         disc |-> r.disc]

\* RtpSession::<op>: the channels after, the provider calls made and the
\* context connections severed
SessionOperation(op) ==
    [chan |-> chan, calls |-> <<Call(SessionCtx, ContextMethod(op), NULL)>>, disc |-> {}]

SessionCall(op) ==
    LET r == SessionOperation(op)
    IN  /\ chan' = r.chan
        /\ calls' = r.calls
        /\ conn' = conn \ r.disc
        /\ ctxEnabled' = ApplyCalls(ctxEnabled, r.calls)
        /\ emitted' = NoSignal
        /\ ret' = NoRet
        /\ last' = [op |-> op, ch |-> "session", arg |-> NULL]
        /\ UNCHANGED <<listeners, provCtx, nextCtx, alive, ctxAvail, phase, wrote, given,
                   registryVars, valueVars, stepVars>>

\* ------------------------------------------------------ provider steps
\* the provider session creates a fresh pair of channel contexts; the earlier
\* pair stays alive until the provider destroys it, but holds no packets any more
ProviderNewChannels ==
    /\ nextCtx + 1 <= MaxCtx
    /\ provCtx' = [audio |-> nextCtx, video |-> nextCtx + 1]
    /\ nextCtx' = nextCtx + 2
    /\ alive' = alive \cup {nextCtx, nextCtx + 1}
    /\ ctxAvail' = [x \in Ctx |-> 0]
    /\ calls' = <<>>
    /\ emitted' = NoSignal
    /\ ret' = NoRet
    /\ last' = [op |-> "newChannels", ch |-> "provider", arg |-> NULL]
    /\ UNCHANGED <<chan, listeners, conn, ctxEnabled, phase, wrote, given,
                   registryVars, valueVars, stepVars>>

\* a channel context is deleted: QObject::destroyed reaches c_destroyed of every
\* channel connected to it
CtxDestroyed(x) ==
    /\ x \in alive
    /\ alive' = alive \ {x}
    /\ chan' = [ch \in Channels |->
           IF <<x, ch>> \in conn THEN c_destroyed(chan[ch]) ELSE chan[ch]]
    /\ wrote' = [ch \in Channels |-> IF <<x, ch>> \in conn THEN FALSE ELSE wrote[ch]]
    /\ conn' = {p \in conn : p[1] # x}
    /\ provCtx' = [ch \in Channels |-> IF provCtx[ch] = x THEN NULL ELSE provCtx[ch]]
    /\ ctxEnabled' = [ctxEnabled EXCEPT ![x] = FALSE]
    /\ ctxAvail' = [ctxAvail EXCEPT ![x] = 0]
    /\ calls' = <<>>
    /\ emitted' = NoSignal
    /\ ret' = NoRet
    /\ last' = [op |-> "destroyed", ch |-> "provider",
                arg |-> {ch \in Channels : <<x, ch>> \in conn}]
    /\ UNCHANGED <<listeners, nextCtx, phase, given,
                   registryVars, valueVars, stepVars>>

\* RtpChannelPrivate::c_readyRead / c_packetsWritten: a signal of context x is
\* re-emitted by the channels connected to x
Reemit(x, sig) ==
    LET to == {ch \in Channels : <<x, ch>> \in conn}
    IN  IF to = {} THEN NoSignal ELSE Emit(sig, to, chan)

\* a packet arrives at a context the provider session currently hands out
CtxReceive(ch) ==
    /\ provCtx[ch] # NULL
    /\ ctxAvail[provCtx[ch]] < MaxAvail
    /\ ctxAvail' = [ctxAvail EXCEPT ![provCtx[ch]] = @ + 1]
    /\ emitted' = NoSignal
    /\ calls' = <<>>
    /\ ret' = NoRet
    /\ last' = [op |-> "ctxReceive", ch |-> "provider", arg |-> NULL]
    /\ UNCHANGED <<chan, listeners, conn, provCtx, nextCtx, alive, ctxEnabled,
                   phase, wrote, given,
                   registryVars, valueVars, stepVars>>

\* context x raises readyRead
CtxReadyRead(x) ==
    /\ x \in alive
    /\ emitted' = Reemit(x, "readyRead")
    /\ calls' = <<>>
    /\ ret' = NoRet
    /\ last' = [op |-> "ctxReadyRead", ch |-> "provider", arg |-> NULL]
    /\ UNCHANGED <<chan, listeners, conn, provCtx, nextCtx, alive, ctxEnabled,
                   ctxAvail, phase, wrote, given,
                   registryVars, valueVars, stepVars>>

\* context x raises packetsWritten
CtxPacketsWritten(x) ==
    /\ x \in alive
    /\ emitted' = Reemit(x, "packetsWritten")
    /\ calls' = <<>>
    /\ ret' = NoRet
    /\ last' = [op |-> "ctxPacketsWritten", ch |-> "provider", arg |-> NULL]
    /\ UNCHANGED <<chan, listeners, conn, provCtx, nextCtx, alive, ctxEnabled,
                   ctxAvail, phase, wrote, given,
                   registryVars, valueVars, stepVars>>

\* ------------------------------------------------- registry operations
\* an operation that may create a provider or open a loader stays within the
\* bounds
FitsProvider == world.g_provider = NULL /\ FirstYielding(statics, 1) # 0
                    => world.made < MaxProviders
FitsLoad(fname) ==
    world.g_provider = NULL =>
        /\ world.opened < MaxLoaders
        /\ fname \in {"failing", "good"} => world.made < MaxProviders

\* the caller calls loadPlugin(fname, resourcePath)
LoadPlugin(fname) ==
    LET r == loadPlugin(world, fname)
    IN  /\ proc = "running"
        /\ FitsLoad(fname)
        /\ world' = r.w
        /\ lout' = [op |-> "loadPlugin", arg |-> fname, ret |-> r.ret]
        /\ UNCHANGED <<statics, proc, thr, ghost, rtpVars, valueVars, stepVars>>

\* the caller calls isSupported()
IsSupported ==
    LET r == isSupported(world, statics)
    IN  /\ proc = "running"
        /\ FitsProvider
        /\ world' = r.w
        /\ lout' = [op |-> "isSupported", arg |-> "none", ret |-> r.ret]
        /\ ghost' = [ghost EXCEPT !.supported = @ \/ r.ret = "true"]
        /\ UNCHANGED <<statics, proc, thr, rtpVars, valueVars, stepVars>>

\* the caller calls unloadPlugin()
UnloadPlugin ==
    /\ proc = "running"
    /\ world' = unloadPlugin(world)
    /\ lout' = [op |-> "unloadPlugin", arg |-> "none", ret |-> "none"]
    /\ ghost' = [ghost EXCEPT !.unloaded = TRUE]
    /\ UNCHANGED <<statics, proc, thr, rtpVars, valueVars, stepVars>>

\* creditName(), creditText(), new RtpSession: provider() and a call through
\* the pointer it returned
CallThroughProvider(op, text) ==
    LET r == ThroughProvider(world, statics, text)
    IN  /\ proc = "running"
        /\ FitsProvider
        /\ \E o \in r.rets :
              /\ lout' = [op |-> op, arg |-> "none", ret |-> o]
              /\ proc' = IF o = "fault" THEN "fault" ELSE proc
        /\ world' = r.w
        /\ UNCHANGED <<statics, thr, ghost, rtpVars, valueVars, stepVars>>

CreditName == CallThroughProvider("creditName", "name")
CreditText == CallThroughProvider("creditText", "text")
NewRtpSession == CallThroughProvider("RtpSession", "context")

\* the application object goes away: the routines registered with
\* qAddPostRoutine run
ProcessExit ==
    /\ proc = "running"
    /\ proc' = "exited"
    /\ world' = PostRoutines(world, world.postRoutines)
    /\ lout' = [op |-> "exit", arg |-> "none", ret |-> "none"]
    /\ ghost' = [ghost EXCEPT !.teardowns = world.postRoutines]
    /\ UNCHANGED <<statics, thr, rtpVars, valueVars, stepVars>>

\* ----------------------------------------- registry operations, threaded
\* thread t enters loadPlugin and tests g_provider (line 168)
ThreadLoadEnter(t, fname) ==
    /\ proc = "running"
    /\ thr[t] = Idle
    /\ IF world.g_provider # NULL
       THEN /\ lout' = [op |-> "loadPlugin", arg |-> fname, ret |-> "PluginSuccess"]
            /\ thr' = thr
       ELSE /\ thr' = [thr EXCEPT ![t] = [pc |-> "loadPlugin", fname |-> fname]]
            /\ lout' = [op |-> "enter", arg |-> fname, ret |-> "none"]
    /\ UNCHANGED <<world, statics, proc, ghost, rtpVars, valueVars, stepVars>>

\* thread t, having found g_provider null, runs the rest of loadPlugin
ThreadLoadFinish(t) ==
    LET r == loadPlugin_attempt(world, thr[t].fname)
    IN  /\ proc = "running"
        /\ thr[t].pc = "loadPlugin"
        /\ world.opened < MaxLoaders
        /\ world.made < MaxProviders
        /\ world' = r.w
        /\ thr' = [thr EXCEPT ![t] = Idle]
        /\ lout' = [op |-> "loadPlugin", arg |-> thr[t].fname, ret |-> r.ret]
        /\ UNCHANGED <<statics, proc, ghost, rtpVars, valueVars, stepVars>>

\* thread t enters provider() - from isSupported() or from Features::Private::run
\* - and tests g_provider (line 126)
ThreadProviderEnter(t) ==
    /\ proc = "running"
    /\ thr[t] = Idle
    /\ IF world.g_provider # NULL
       THEN /\ lout' = [op |-> "provider", arg |-> "none", ret |-> "true"]
            /\ thr' = thr
       ELSE /\ thr' = [thr EXCEPT ![t] = [pc |-> "provider", fname |-> "none"]]
            /\ lout' = [op |-> "enter", arg |-> "none", ret |-> "none"]
    /\ UNCHANGED <<world, statics, proc, ghost, rtpVars, valueVars, stepVars>>

\* thread t, having found g_provider null, runs the rest of provider()
ThreadProviderFinish(t) ==
    LET r == provider_acquire(world, statics)
    IN  /\ proc = "running"
        /\ thr[t].pc = "provider"
        /\ world.made < MaxProviders
        /\ world' = r.w
        /\ thr' = [thr EXCEPT ![t] = Idle]
        /\ lout' = [op |-> "provider", arg |-> "none",
                    ret |-> IF r.ret # NULL THEN "true" ELSE "false"]
        /\ UNCHANGED <<statics, proc, ghost, rtpVars, valueVars, stepVars>>

\* ---------------------------------------------------- value operations
\* an application-side value is exported and the result imported
ExportImport ==
    /\ valop.op = "none"
    /\ valop.a.class \in {"AudioParams", "VideoParams", "PayloadInfo"}
    /\ valop' = [valop EXCEPT !.op = "exportImport", !.out = Import(Export(valop.a)),
                              !.same = Equal(Import(Export(valop.a)), valop.a)]
    /\ UNCHANGED <<rtpVars, registryVars, stepVars>>

\* a provider-side value is imported and the result exported
ImportExport ==
    /\ valop.op = "none"
    /\ valop.a.class \in {"PAudioParams", "PVideoParams", "PPayloadInfo"}
    /\ valop' = [valop EXCEPT !.op = "importExport", !.out = Export(Import(valop.a))]
    /\ UNCHANGED <<rtpVars, registryVars, stepVars>>

\* two PayloadInfo values are compared with operator==
Compare ==
    /\ valop.op = "none"
    /\ valop.b.class = "PayloadInfo"
    /\ valop' = [valop EXCEPT !.op = "==", !.same = PayloadInfoEq(valop.a, valop.b)]
    /\ UNCHANGED <<rtpVars, registryVars, stepVars>>

\* steps of the caller on channel ch
Caller(ch) ==
    \/ ChPacketsAvailable(ch)
    \/ ChRead(ch)
    \/ \E rtp \in Packets : ChWrite(ch, rtp)
    \/ \E signal \in Signals : ChConnect(ch, signal)
    \/ \E signal \in Signals : ChDisconnect(ch, signal)

\* the session handling a notification of its session context
Notified ==
    \/ OnStarted
    \/ OnStopped
    \/ OnFinished
    \/ OnError
    \/ \E sig \in {"preferencesUpdated", "audioInputIntensityChanged"} : OnPassThrough(sig)

\* steps of the provider on its channel contexts
Provider ==
    \/ ProviderNewChannels
    \/ \E ch \in Channels : CtxReceive(ch)
    \/ \E x \in Ctx : CtxReadyRead(x)
    \/ \E x \in Ctx : CtxPacketsWritten(x)

\* the operations of the provider registry, called one at a time
Registry ==
    \/ \E fname \in PluginKinds : LoadPlugin(fname)
    \/ IsSupported
    \/ UnloadPlugin
    \/ CreditName
    \/ CreditText
    \/ NewRtpSession
    \/ ProcessExit

\* steps of threads inside loadPlugin / provider()
Threaded ==
    \/ \E t \in Threads, fname \in PluginKinds : ThreadLoadEnter(t, fname)
    \/ \E t \in Threads : ThreadLoadFinish(t)
    \/ \E t \in Threads : ThreadProviderEnter(t)
    \/ \E t \in Threads : ThreadProviderFinish(t)

\* operations on parameter values
Values ==
    \/ ExportImport
    \/ ImportExport
    \/ Compare

\* Features::lookup()
FeaturesLookup ==
    /\ feat.queries < MaxLookups
    /\ feat' = lookup(feat)
    /\ UNCHANGED <<rtpVars, registryVars, valueVars, reb>>

\* the lookup thread runs its next statement
FeaturesRun ==
    /\ feat.pc # 0
    /\ feat' = run_step(feat)
    /\ UNCHANGED <<rtpVars, registryVars, valueVars, reb>>

\* Features::waitForFinished(msecs): with msecs < 0 it returns when the thread
\* has finished, with msecs >= 0 it may return false first
FeaturesWait(msecs) ==
    /\ msecs < 0 => feat.pc = 0
    /\ feat' = [feat EXCEPT !.waited = waitForFinished(feat)]
    /\ UNCHANGED <<rtpVars, registryVars, valueVars, reb>>

\* Features::audioOutputDevices() ... supportedVideoModes(), from the caller's
\* thread
FeaturesAccessor(name) ==
    /\ feat.got.value # Torn
    /\ \E v \in accessor(feat, name) :
          feat' = [feat EXCEPT !.got = [name |-> name, value |-> v,
                                        completed |-> feat.completed,
                                        running |-> feat.pc # 0]]
    /\ UNCHANGED <<rtpVars, registryVars, valueVars, reb>>

\* a lifecycle handler calls setContext(_c) on the channel
RebindBegin(_c) ==
    /\ reb.pc = "idle"
    /\ reb' = [reb EXCEPT !.pc = "detach", !.arg = _c, !.from = reb.d,
                          !.issued = <<>>]
    /\ UNCHANGED <<rtpVars, registryVars, valueVars, feat>>

\* setContext runs its next statement
RebindStep ==
    /\ reb.pc # "idle"
    /\ reb' = setContext_step(reb)
    /\ UNCHANGED <<rtpVars, registryVars, valueVars, feat>>

\* read(), write() or packetsAvailable() of the caller, between handlers or from
\* a slot on readyRead raised inside the provider's setEnabled
RebindCaller(op) ==
    /\ reb.pc \in CallerRuns
    /\ LET idle == reb.pc = "idle"
           r == setContext(reb.from, reb.arg)
           seen == [op |-> op, at |-> reb.pc, d |-> reb.d,
                    old |-> IF idle THEN reb.d ELSE reb.from,
                    new |-> IF idle THEN reb.d ELSE r.d,
                    issued |-> reb.issued,
                    owed |-> IF idle THEN <<>> ELSE r.calls]
       IN  reb' = [reb EXCEPT !.seen = seen,
                              !.d = IF op = "write" THEN write(@, "p1").d ELSE @]
    /\ UNCHANGED <<rtpVars, registryVars, valueVars, feat>>

\* the caller subscribes to readyRead between handlers
RebindSubscribe ==
    /\ reb.pc = "idle"
    /\ reb.d.readyReadListeners < MaxListeners
    /\ reb' = [reb EXCEPT !.d = connectNotify(@, "readyRead").d]
    /\ UNCHANGED <<rtpVars, registryVars, valueVars, feat>>

\* the capability query: the caller's thread and the lookup thread
Capabilities ==
    \/ FeaturesLookup
    \/ FeaturesRun
    \/ \E msecs \in {0 - 1, 0} : FeaturesWait(msecs)
    \/ \E name \in FeatureNames : FeaturesAccessor(name)

\* a channel rebound by the handlers, statement by statement
Rebinding ==
    \/ \E _c \in Ctx \cup {NULL} : RebindBegin(_c)
    \/ RebindStep
    \/ \E op \in {"read", "write", "packetsAvailable"} : RebindCaller(op)
    \/ RebindSubscribe

Next ==
    \/ \E ch \in Channels : Caller(ch)
    \/ \E op \in Forwarded : SessionForward(op)
    \/ \E op \in Controls \cup Setters : SessionCall(op)
    \/ Notified
    \/ Provider
    \/ \E x \in Ctx : CtxDestroyed(x)
    \/ Registry
    \/ Threaded
    \/ Values
    \/ Capabilities
    \/ Rebinding

\* the whole library; its state space is the product of the parts below, each
\* of which has a specification of its own
Spec == Init /\ [][Next]_vars

\* no static plugin instance and no value operation under way
Elsewhere == statics = <<>> /\ valop = ValueIdle /\ Sequential

\* the session with both channels under every caller operation, over contexts
\* the provider keeps alive and fills with packets (the signals the contexts
\* raise are in SpecChannel); the two uninitialised counters are sampled with
\* equal first values
InitSession ==
    /\ Elsewhere
    /\ Init
    /\ chan["audio"].readyReadListeners = chan["video"].readyReadListeners

NextSession ==
    \/ \E ch \in Channels : Caller(ch)
    \/ \E op \in Forwarded : SessionForward(op)
    \/ Notified
    \/ ProviderNewChannels
    \/ \E ch \in Channels : CtxReceive(ch)

SpecSession == InitSession /\ [][NextSession]_vars

\* one channel under every caller operation, session notification and provider
\* step, contexts being destroyed included; the caller leaves the other channel
\* alone
InitChannel == Elsewhere /\ Init /\ chan["video"].readyReadListeners = 0

NextChannel ==
    \/ Caller("audio")
    \/ \E op \in Forwarded : SessionForward(op)
    \/ Notified
    \/ Provider
    \/ \E x \in Ctx : CtxDestroyed(x)

SpecChannel == InitChannel /\ [][NextChannel]_vars

\* one channel, its bindings made and broken by the session and the provider,
\* under every control operation and setter of RtpSession
NextFrame ==
    \/ Caller("audio")
    \/ \E op \in Controls \cup Setters : SessionCall(op)
    \/ Notified
    \/ ProviderNewChannels
    \/ \E x \in Ctx : CtxDestroyed(x)

SpecFrame == InitChannel /\ [][NextFrame]_vars

\* the provider registry under a single caller: operations run one at a time
InitRegistry ==
    /\ chan = [ch \in Channels |-> RtpChannelPrivate(0)]
    /\ valop = ValueIdle
    /\ Sequential
    /\ Init

SpecRegistry == InitRegistry /\ [][Registry]_vars

\* loadPlugin and provider() entered from two threads, with nothing between
\* them to order the test of g_provider and what follows it
SpecThreads == InitRegistry /\ [][Threaded]_vars

\* the value types: conversions across the provider interface and equality
InitValues ==
    /\ chan = [ch \in Channels |-> RtpChannelPrivate(0)]
    /\ statics = <<>>
    /\ Sequential
    /\ Init

SpecValues == InitValues /\ [][Values]_vars

\* the capability query, run again and again while the caller reads the lists
InitFeatures ==
    /\ chan = [ch \in Channels |-> RtpChannelPrivate(0)]
    /\ statics = <<>>
    /\ valop = ValueIdle
    /\ reb = RebIdle(0)
    /\ Init

SpecFeatures == InitFeatures /\ [][Capabilities]_vars

\* one channel rebound by the handlers while the caller reads and writes
InitRebind ==
    /\ chan = [ch \in Channels |-> RtpChannelPrivate(0)]
    /\ statics = <<>>
    /\ valop = ValueIdle
    /\ feat = Features0
    /\ Init

SpecRebind == InitRebind /\ [][Rebinding]_vars

\* ------------------------------------------------------------ claims
LifecycleEnd == {"stopped", "finished", "error"}
ChannelOps == {"packetsAvailable", "read", "write", "connectNotify", "disconnectNotify"}

\* C1: whenever stopped, finished or error is re-emitted to the caller, both
\* channels are already unbound (context null) and disabled at that moment.
C1_UnboundBeforeEmit ==
    emitted.sig \in LifecycleEnd =>
        \A ch \in Channels : emitted.chan[ch].c = NULL /\ ~emitted.chan[ch].enabled

\* C1 witness: stopped was emitted after both channels had been bound to
\* contexts that were enabled through them
C1_Witness ==
    /\ emitted.sig = "stopped"
    /\ \A ch \in Channels : provCtx[ch] # NULL /\ ctxEnabled[provCtx[ch]]

\* C2: a channel's bound context is null whenever the session is not started,
\* and otherwise null or the context the session context returned at the most
\* recent started notification; no context of an earlier start stays bound.
C2_BoundOnlyWhileStarted ==
    \A ch \in Channels :
        /\ phase # "started" => chan[ch].c = NULL
        /\ phase = "started" => chan[ch].c \in {NULL, given[ch]}
        /\ chan[ch].c # NULL => chan[ch].c \in alive

\* C2 witness: the session was started again after the provider replaced a
\* channel context, and the channel is bound to the new context while the
\* earlier one is still alive
C2_Witness ==
    /\ phase = "started"
    /\ \E ch \in Channels, x \in alive :
           /\ chan[ch].c # NULL /\ x < chan[ch].c
           /\ ctxEnabled[x] /\ x \notin {provCtx[c2] : c2 \in Channels}

\* the setEnabled(b) calls context x received among the calls cs
SetEnabledCalls(cs, x, b) ==
    Cardinality({i \in 1..Len(cs) : cs[i] = Call(x, "setEnabled", b)})

\* C3 as stated: in every state of a channel, enabled iff (listener count > 0)
\* or (a write was issued since the last disable); taken on the channels whose
\* counter equals the number of readyRead connections.
C3_Original ==
    \A ch \in Channels :
        chan[ch].readyReadListeners = listeners[ch] =>
            (chan[ch].enabled <=> (listeners[ch] > 0 \/ wrote[ch]))

\* C3 amended: a bound channel is enabled iff its interest counter
\* readyReadListeners is > 0 or a write was forwarded to the bound context since
\* enabled was last cleared; an unbound channel is never enabled, whatever its
\* listener count.
C3_EnabledIffInterestWhileBound ==
    \A ch \in Channels :
        IF chan[ch].c # NULL
        THEN chan[ch].enabled <=> (chan[ch].readyReadListeners > 0 \/ wrote[ch])
        ELSE ~chan[ch].enabled /\ ~wrote[ch]

\* C3 witness: a bound channel nobody listens to, enabled by a write
C3_Witness ==
    /\ chan["audio"].c # NULL /\ chan["audio"].enabled
    /\ chan["audio"].readyReadListeners = 0 /\ listeners["audio"] = 0
    /\ wrote["audio"]

\* C4: a readyRead subscription adds one to the interest counter and its removal
\* takes one off; on a bound channel the context gets setEnabled(true) exactly on
\* 0 -> 1 and setEnabled(false) exactly on 1 -> 0; no setEnabled on any other
\* transition, on another signal, or while unbound.
C4_Step(ch) ==
    LET o == chan[ch].readyReadListeners
        n == chan'[ch].readyReadListeners
        x == chan[ch].c
    IN  /\ (last'.op = "connectNotify" /\ last'.ch = ch) =>
               /\ n = IF last'.arg = "readyRead" THEN o + 1 ELSE o
               /\ calls' = IF x # NULL /\ o = 0 /\ n = 1
                           THEN <<Call(x, "setEnabled", TRUE)>> ELSE <<>>
        /\ (last'.op = "disconnectNotify" /\ last'.ch = ch) =>
               /\ n = IF last'.arg = "readyRead" THEN o - 1 ELSE o
               /\ calls' = IF x # NULL /\ o = 1 /\ n = 0
                           THEN <<Call(x, "setEnabled", FALSE)>> ELSE <<>>

\* C4: every connect and disconnect step changes the counter by one for
\* readyRead only and calls setEnabled exactly on 0 -> 1 and 1 -> 0 while bound.
C4_EnableOnFirstDisableOnLast == [][\A ch \in Channels : C4_Step(ch)]_vars

\* C4 witness: a second listener subscribed on a bound channel and no call
\* reached the context
C4_Witness ==
    /\ last.op = "connectNotify" /\ last.ch = "audio" /\ last.arg = "readyRead"
    /\ chan["audio"].c # NULL /\ chan["audio"].readyReadListeners = 2
    /\ calls = <<>>

\* C5 as stated: on a bound channel, read() and packetsAvailable() never enable
\* the transport; from disabled it becomes enabled by the first listener
\* subscribing or by a write, and by nothing else; it becomes disabled exactly
\* when the listener count returns to zero.
C5_Step(ch) ==
    LET d == chan[ch]
        e == chan'[ch]
        first == last'.op = "connectNotify" /\ last'.arg = "readyRead" /\ listeners[ch] = 0
        lastGone == listeners[ch] = 1 /\ listeners'[ch] = 0
    IN  (last'.ch = ch /\ last'.op \in ChannelOps /\ d.c # NULL) =>
            /\ last'.op \in {"packetsAvailable", "read"} =>
                   e.enabled = d.enabled /\ \A i \in 1..Len(calls') : calls'[i].op # "setEnabled"
            /\ (~d.enabled /\ (last'.op = "write" \/ first)) => e.enabled
            /\ (~d.enabled /\ e.enabled) => (last'.op = "write" \/ first)
            /\ (d.enabled /\ lastGone) => ~e.enabled
            /\ (d.enabled /\ ~e.enabled) => lastGone

\* C5 as stated, over every caller step on a bound channel.
C5_Claim == [][\A ch \in Channels : C5_Step(ch)]_vars

\* C6: write on a bound channel that is not enabled calls setEnabled(true) on
\* the bound context and then forwards the packet; on an enabled one it only
\* forwards; one packet, the one written, reaches the context per write.
C6_Step(ch) ==
    LET d == chan[ch]
    IN  (last'.op = "write" /\ last'.ch = ch /\ d.c # NULL) =>
            /\ calls' = IF ~d.enabled
                        THEN <<Call(d.c, "setEnabled", TRUE), Call(d.c, "write", last'.arg)>>
                        ELSE <<Call(d.c, "write", last'.arg)>>
            /\ chan'[ch] = [d EXCEPT !.enabled = TRUE]

\* C6: every write step on a bound channel makes setEnabled(true) then write
\* when the channel was disabled, and write alone when it was enabled.
C6_WriteEnablesThenForwards == [][\A ch \in Channels : C6_Step(ch)]_vars

\* C6 witness: a write on a bound, disabled channel that enabled the context
\* and then forwarded packet p2
C6_Witness ==
    /\ last.op = "write" /\ last.ch = "audio" /\ last.arg = "p2"
    /\ chan["audio"].c # NULL
    /\ calls = <<Call(chan["audio"].c, "setEnabled", TRUE),
                 Call(chan["audio"].c, "write", "p2")>>

\* C7: on an unbound channel packetsAvailable() returns 0, read() the null
\* packet and write() drops the packet; none reaches a context or changes the
\* enabled flag, the binding or the listener count; and what a later bind does
\* to the enabled flag is decided by the interest counter alone, not by a write
\* made while unbound.
C7_Step(ch) ==
    LET d == chan[ch]
    IN  /\ (last'.ch = ch /\ last'.op \in {"packetsAvailable", "read", "write"} /\ d.c = NULL) =>
               /\ calls' = <<>>
               /\ chan' = chan /\ listeners' = listeners /\ conn' = conn
               /\ ctxEnabled' = ctxEnabled /\ ctxAvail' = ctxAvail
               /\ ret' = CASE last'.op = "packetsAvailable" -> Count(0)
                           [] last'.op = "read" -> NullPacket
                           [] OTHER -> NoRet
        /\ (last'.op = "started" /\ d.c = NULL /\ provCtx[ch] # NULL) =>
               (chan'[ch].enabled <=> d.readyReadListeners > 0)

\* C7: every packetsAvailable, read and write step on an unbound channel
\* returns 0 / null / nothing, makes no call and changes nothing.
C7_UnboundIsInert == [][\A ch \in Channels : C7_Step(ch)]_vars

\* C7 witness: packetsAvailable() answered 0 on an unbound channel while the
\* context the provider holds for it has a packet
C7_Witness ==
    /\ last.op = "packetsAvailable" /\ last.ch = "audio"
    /\ chan["audio"].c = NULL
    /\ provCtx["audio"] # NULL /\ ctxAvail[provCtx["audio"]] > 0
    /\ ret = Count(0) /\ calls = <<>>

\* C8 as stated: detaching clears enabled and severs the subscriptions to the
\* old context, so only the bound context's readyRead/packetsWritten are
\* re-emitted; attaching a context sets enabled and calls setEnabled(true) on it
\* at once iff the listener count is > 0, so interest registered while unbound
\* is honoured at the next bind and write-triggered enablement is not.
C8_Connections == conn = {<<chan[ch].c, ch>> : ch \in {c2 \in Channels : chan[c2].c # NULL}}

C8_Step(ch) ==
    LET d == chan[ch]
        e == chan'[ch]
    IN  /\ (last'.op \in LifecycleEnd /\ d.c # NULL) => (e.c = NULL /\ ~e.enabled)
        /\ (last'.op = "started" /\ provCtx[ch] # NULL) =>
               /\ e.c = provCtx[ch]
               /\ e.enabled <=> listeners[ch] > 0
               /\ SetEnabledCalls(calls', provCtx[ch], TRUE) = IF listeners[ch] > 0 THEN 1 ELSE 0

\* C8 as stated: the subscriptions are those to the bound contexts, a detach
\* clears enabled, and an attach enables iff the listener count is > 0.
C8_Claim == []C8_Connections /\ [][\A ch \in Channels : C8_Step(ch)]_vars

\* C9: a bound context destroyed out-of-band leaves the channel as
\* setContext(null) would: binding null, enabled false, interest counter and
\* listeners as they were; afterwards packetsAvailable() is 0, read() is null,
\* write() is dropped, and no call is ever made on a destroyed context.
C9_Step(ch) ==
    (last'.op = "destroyed" /\ ch \in last'.arg) =>
        /\ chan[ch].c # NULL /\ chan[ch].c \notin alive'
        /\ chan'[ch] = setContext(chan[ch], NULL).d
        /\ chan'[ch] = [c |-> NULL, enabled |-> FALSE,
                        readyReadListeners |-> chan[ch].readyReadListeners]
        /\ listeners' = listeners
        /\ calls' = <<>>

C9_NoCallOnDestroyed ==
    \A i \in 1..Len(calls) : calls[i].ctx = SessionCtx \/ calls[i].ctx \in alive

C9_UnboundAnswers ==
    \A ch \in Channels :
        (last.ch = ch /\ chan[ch].c = NULL) =>
            /\ last.op = "packetsAvailable" => ret = Count(0) /\ calls = <<>>
            /\ last.op = "read" => ret = NullPacket /\ calls = <<>>
            /\ last.op = "write" => calls = <<>>

\* C9: every destroyed step leaves the channel as setContext(null) would, no
\* call targets a destroyed context, and the unbound channel answers 0 / null.
C9_DestroyedIsDetach ==
    /\ []C9_NoCallOnDestroyed
    /\ []C9_UnboundAnswers
    /\ [][\A ch \in Channels : C9_Step(ch)]_vars

\* C9 witness: the context a channel with a listener was bound to and enabled
\* on has been destroyed
C9_Witness ==
    /\ last.op = "destroyed" /\ "audio" \in last.arg
    /\ listeners["audio"] = 1 /\ chan["audio"].readyReadListeners = 1
    /\ chan["audio"].c = NULL

\* C10 as stated: when started is re-emitted both channels are bound to the
\* contexts the session context returns, packetsAvailable() then answers what
\* the context holds, and for a channel with a readyRead listener
\* setEnabled(true) reached its context exactly once in that start.
C10_Claim ==
    /\ emitted.sig = "started" =>
           \A ch \in Channels :
               /\ emitted.chan[ch].c = provCtx[ch]
               /\ (provCtx[ch] # NULL /\ listeners[ch] > 0) =>
                      SetEnabledCalls(calls, provCtx[ch], TRUE) = 1
    /\ \A ch \in Channels :
           (last.op = "packetsAvailable" /\ last.ch = ch /\ chan[ch].c # NULL) =>
               ret = Count(ctxAvail[chan[ch].c])

\* C11: from the provider's error notification until it next reports started,
\* whatever the caller does and without any stop(), both channels answer
\* packetsAvailable() with 0 and read() with the null packet, asking no context;
\* and a start() reaches the session context only in a step where the caller
\* called RtpSession::start.
C11_ErrorLeavesChannelsInert ==
    /\ phase = "error" =>
          /\ \A ch \in Channels :
                /\ packetsAvailable(chan[ch]) = [ret |-> Count(0), calls |-> <<>>]
                /\ read(chan[ch]) = [ret |-> NullPacket, calls |-> <<>>]
          /\ last.op = "packetsAvailable" => ret = Count(0)
          /\ last.op = "read" => ret = NullPacket
    /\ \A i \in 1..Len(calls) :
          calls[i].ctx = SessionCtx /\ calls[i].op = "start" => last.op = "start"

\* after error the caller reads the video channel while the context the
\* provider still hands out holds a packet, and gets the null packet
C11_Witness ==
    /\ phase = "error"
    /\ last.op = "read" /\ last.ch = "video"
    /\ ret = NullPacket
    /\ provCtx["video"] # NULL
    /\ ctxAvail[provCtx["video"]] > 0

\* C12: a control operation or setter of RtpSession makes exactly one call, on
\* the session context, and leaves both channels' bindings, enabled flags and
\* listener counts, the context connections and the contexts' enabled state as
\* they were; a channel's binding changes only in a step handling started,
\* stopped, finished or error, or in which its context is destroyed.
C12_Step ==
    /\ last'.ch = "session" /\ last'.op \in Controls \cup Setters =>
          /\ chan' = chan
          /\ listeners' = listeners
          /\ conn' = conn
          /\ ctxEnabled' = ctxEnabled
          /\ calls' = <<Call(SessionCtx, ContextMethod(last'.op), NULL)>>
    /\ \A ch \in Channels :
          chan'[ch].c # chan[ch].c =>
              \/ last'.ch = "session" /\ last'.op \in LifecycleEnd \cup {"started"}
              \/ last'.op = "destroyed" /\ ch \in last'.arg

C12_ForwardOnly == [][C12_Step]_vars

\* the caller calls stop() on a started session whose audio channel is bound,
\* enabled and listened to; the channel is still bound and enabled afterwards
C12_Witness ==
    /\ last.op = "stop" /\ last.ch = "session"
    /\ phase = "started"
    /\ chan["audio"].c # NULL
    /\ chan["audio"].enabled
    /\ listeners["audio"] > 0

\* C13: loadPlugin called while a provider is active - loaded from a file or
\* found among the static instances - returns PluginSuccess and leaves the
\* registry exactly as it was: no loader opened, no provider created or
\* initialised, g_provider and g_pluginLoader unchanged.
C13_Step ==
    world.g_provider # NULL /\ lout'.op = "loadPlugin" =>
        /\ lout'.ret = "PluginSuccess"
        /\ world' = world

C13_ActiveMeansSuccess == [][C13_Step]_vars

\* with a provider found among the static instances active and no loader ever
\* opened, loadPlugin of a file that cannot be opened returned PluginSuccess
C13_Witness ==
    /\ lout.op = "loadPlugin" /\ lout.arg = "missing"
    /\ lout.ret = "PluginSuccess"
    /\ world.g_provider # NULL
    /\ world.g_pluginLoader = NULL
    /\ world.opened = 0

\* the result loadPlugin owes a file of the given kind when no provider is active
ResultOwed(fname) ==
    CASE fname = "missing" -> "ErrorLoad"
      [] fname = "foreign" -> "ErrorVersion"
      [] fname \in {"barren", "failing"} -> "ErrorInit"
      [] OTHER -> "PluginSuccess"

\* C14: with no provider active, loadPlugin returns ErrorLoad for a file that
\* cannot be opened, ErrorVersion for one that is not a plugin, ErrorInit when
\* createProvider() yields nothing or init() fails, PluginSuccess otherwise; on
\* every other result than PluginSuccess g_provider and g_pluginLoader are still
\* null, nothing was registered for exit, and the loader and any provider made
\* by the attempt have been deleted, once each.
C14_Step ==
    world.g_provider = NULL /\ lout'.op = "loadPlugin" =>
        /\ lout'.ret = ResultOwed(lout'.arg)
        /\ lout'.ret # "PluginSuccess" =>
              /\ world'.g_provider = NULL
              /\ world'.g_pluginLoader = NULL
              /\ world'.postRoutines = world.postRoutines
              /\ world'.opened = world.opened + 1
              /\ \A l \in DOMAIN world'.loaders :
                    IF l = world'.opened THEN world'.loaders[l].deletes = 1
                    ELSE world'.loaders[l] = world.loaders[l]
              /\ \A p \in DOMAIN world'.provs :
                    IF world.made < p
                    THEN world'.provs[p].deletes = 1 /\ ~world'.provs[p].active
                    ELSE world'.provs[p] = world.provs[p]
        /\ lout'.ret = "PluginSuccess" =>
              /\ world'.g_provider = world'.made
              /\ world'.g_pluginLoader = world'.opened
              /\ world'.postRoutines = world.postRoutines + 1

C14_LoadResults == [][C14_Step]_vars

\* a load whose provider failed init() returned ErrorInit: the provider and the
\* loader it made are deleted and nothing is active
C14_Witness ==
    /\ lout.op = "loadPlugin" /\ lout.arg = "failing"
    /\ lout.ret = "ErrorInit"
    /\ world.g_provider = NULL
    /\ world.made > 0
    /\ world.provs[world.made].deletes = 1
    /\ world.loaders[world.opened].deletes = 1

\* a provider is active, or the static instances yield one that initialises
Obtainable(w, list) ==
    \/ w.g_provider # NULL
    \/ LET i == FirstYielding(list, 1) IN i # 0 /\ list[i] = "good"

\* C15 as stated: isSupported() is false before any provider is reachable, true
\* after a successful load, and once it has returned true it never returns
\* false again, whatever registry operations follow.
C15_Original ==
    /\ lout.op = "isSupported" /\ lout.ret = "false" => ~ghost.supported
    /\ lout.op = "loadPlugin" /\ lout.ret = "PluginSuccess" =>
          isSupported(world, statics).ret = "true"

\* C15: isSupported() returns true exactly when a provider is active or the
\* static instances yield one, so false before any provider is reachable and
\* true after a successful load; once it has returned true a provider is
\* active, and it stays active - isSupported() stays true - through every step
\* other than unloadPlugin() and the teardown at exit.
C15_Step ==
    /\ lout'.op = "isSupported" =>
          /\ lout'.ret = "true" <=> Obtainable(world, statics)
          /\ lout'.ret = "true" <=> world'.g_provider # NULL
    /\ lout'.op = "loadPlugin" /\ lout'.ret = "PluginSuccess" =>
          /\ world'.g_provider # NULL
          /\ isSupported(world', statics).ret = "true"
    /\ world.g_provider # NULL /\ lout'.op \notin {"unloadPlugin", "exit"} =>
          /\ world'.g_provider = world.g_provider
          /\ isSupported(world', statics).ret = "true"

C15_SupportedWhileActive == [][C15_Step]_vars

\* isSupported() returned true while a dynamically loaded provider is active and
\* unloadPlugin() was never called
C15_Witness ==
    /\ lout.op = "isSupported" /\ lout.ret = "true"
    /\ world.g_pluginLoader # NULL
    /\ ~ghost.unloaded

\* C16: every provider that became active is deleted at most once, is the
\* active one until it is deleted, is deleted by the time the process has
\* exited, and its module is unloaded and its loader deleted with it, once;
\* unloadPlugin() with nothing loaded changes nothing; and when a provider was
\* loaded and unloadPlugin() never called, the exit routine runs exactly once.
C16_ReleasedOnce ==
    /\ \A p \in DOMAIN world.provs :
          /\ world.provs[p].deletes <= 1
          /\ world.provs[p].active =>
                LET l == world.provs[p].module
                IN  /\ world.provs[p].deletes = 0 <=> world.g_provider = p
                    /\ proc = "exited" => world.provs[p].deletes = 1
                    /\ l # NULL /\ world.provs[p].deletes = 1 =>
                          world.loaders[l] = [loaded |-> FALSE, deletes |-> 1]
                    /\ l # NULL /\ world.provs[p].deletes = 0 =>
                          /\ world.loaders[l] = [loaded |-> TRUE, deletes |-> 0]
                          /\ world.g_pluginLoader = l
    /\ \A l \in DOMAIN world.loaders : world.loaders[l].deletes <= 1
    /\ world.g_provider = NULL => unloadPlugin(world) = world
    /\ proc = "exited" /\ ~ghost.unloaded /\ (\E p \in DOMAIN world.provs : world.provs[p].active) =>
          ghost.teardowns = 1

\* the process exited with a dynamically loaded provider never unloaded: the
\* exit routine ran once, the provider is deleted and its loader with it
C16_Witness ==
    /\ proc = "exited"
    /\ ~ghost.unloaded
    /\ ghost.teardowns = 1
    /\ \E p \in DOMAIN world.provs :
          /\ world.provs[p].active
          /\ world.provs[p].deletes = 1
          /\ world.provs[p].module # NULL

\* providers that were made active and are not deleted
Live == {p \in DOMAIN world.provs : world.provs[p].active /\ world.provs[p].deletes = 0}

\* C17: at most one provider is active at any time, and whatever the
\* interleaving of loadPlugin and provider() across threads, no second provider
\* is initialised beside an active one and an active provider is never
\* overwritten in g_provider.
C17_Claim ==
    /\ Cardinality(Live) <= 1
    /\ \A p \in Live : world.g_provider = p

\* C18: creditName(), creditText() and the construction of an RtpSession, when
\* no provider is available, return an empty / null value; the process never
\* stops on a fault.
C18_Claim ==
    /\ proc # "fault"
    /\ lout.op \in {"creditName", "creditText", "RtpSession"} /\ world.g_provider = NULL =>
          lout.ret = ""

\* C19: for every AudioParams, VideoParams and PayloadInfo x, import(export(x))
\* is of x's class and equal to x under its operator==; for every provider-side
\* y, export(import(y)) has y's class and fields, the PayloadInfo parameter list
\* in the same order.
C19_RoundTrip ==
    /\ valop.op = "exportImport" =>
          /\ valop.same
          /\ valop.out.class = valop.a.class
    /\ valop.op = "importExport" => valop.out = valop.a

\* a provider-side payload with two different parameters went through import
\* and export and came back with both, in the order it had
C19_Witness ==
    /\ valop.op = "importExport"
    /\ valop.a.class = "PPayloadInfo"
    /\ Len(valop.a.parameters) = 2
    /\ valop.a.parameters[1] # valop.a.parameters[2]
    /\ valop.out.parameters = valop.a.parameters

\* occurrences of parameter p in list
Occurrences(list, p) == Cardinality({i \in 1..Len(list) : ParameterEq(list[i], p)})

\* one list is a permutation of the other
IsPermutation(s, t) ==
    \A p \in ParameterValues : Occurrences(s, p) = Occurrences(t, p)

\* C20: two PayloadInfo values compare equal exactly when id, name, clockrate,
\* channels, ptime and maxptime are equal and one parameter list is a
\* permutation of the other, names and values compared case-sensitively.
C20_Claim ==
    valop.op = "==" =>
        (valop.same <=>
            /\ valop.a.id = valop.b.id
            /\ valop.a.name = valop.b.name
            /\ valop.a.clockrate = valop.b.clockrate
            /\ valop.a.channels = valop.b.channels
            /\ valop.a.ptime = valop.b.ptime
            /\ valop.a.maxptime = valop.b.maxptime
            /\ IsPermutation(valop.a.parameters, valop.b.parameters))

\* operations that start with provider()
Acquiring == {"isSupported", "creditName", "creditText", "RtpSession"}

\* what lazy acquisition leaves when it returns no provider: the globals and the
\* exit registrations as they were, every provider it made deleted
C23_NothingKept ==
    /\ world'.g_pluginLoader = world.g_pluginLoader
    /\ world'.postRoutines = world.postRoutines
    /\ world'.loaders = world.loaders
    /\ \A p \in DOMAIN world'.provs :
          IF world.made < p
          THEN world'.provs[p].deletes = 1 /\ ~world'.provs[p].active
          ELSE world'.provs[p] = world.provs[p]

\* C23 as stated: with no provider active, lazy acquisition makes a provider
\* active and registers the exit cleanup if and only if some static instance
\* creates a provider whose init() succeeds; when it returns none it keeps
\* nothing.
C23_OriginalStep ==
    world.g_provider = NULL /\ lout'.op \in Acquiring =>
        /\ world'.g_provider # NULL <=>
              \E i \in 1..Len(statics) : statics[i] = "good"
        /\ world'.g_provider = NULL => C23_NothingKept

C23_Original == [][C23_OriginalStep]_vars

\* C23: with no provider active, lazy acquisition takes the first static
\* instance, in order, that is a plugin and creates a provider, and calls
\* init() on that provider only: the provider becomes active and the exit
\* cleanup is registered, once, if and only if that init() succeeds; when
\* acquisition returns no provider g_provider stays null, nothing is registered
\* and the provider it made, if any, has been deleted.
C23_Step ==
    world.g_provider = NULL /\ lout'.op \in Acquiring =>
        LET i == FirstYielding(statics, 1)
        IN  /\ world'.g_provider # NULL <=> (i # 0 /\ statics[i] = "good")
            /\ world'.made = world.made + (IF i # 0 THEN 1 ELSE 0)
            /\ world'.g_provider # NULL =>
                  /\ world'.g_provider = world'.made
                  /\ world'.postRoutines = world.postRoutines + 1
                  /\ world'.provs[world'.made] =
                        [NoProvider EXCEPT !.inits = 1, !.active = TRUE]
            /\ world'.g_provider = NULL => C23_NothingKept

C23_FirstYieldingOnly == [][C23_Step]_vars

\* isSupported() found no provider although the second static instance would
\* have initialised: the first one's provider failed init() and was deleted
C23_Witness ==
    /\ lout.op = "isSupported" /\ lout.ret = "false"
    /\ Len(statics) = 2
    /\ statics[1] = "failing" /\ statics[2] = "good"
    /\ world.g_provider = NULL
    /\ world.made > 0
    /\ world.provs[world.made].deletes = 1

\* C24: whenever a channel is bound, its enabled flag equals the value of the
\* last setEnabled call delivered to the bound context, false if there was none.
C24_Claim ==
    \A ch \in Channels :
        chan[ch].c # NULL => chan[ch].enabled = ctxEnabled[chan[ch].c]

\* every setEnabled call in cs carries the opposite of the value the context
\* received last, en holding the last value each context received
RECURSIVE Alternates(_, _)
Alternates(en, cs) ==
    IF cs = <<>> THEN TRUE
    ELSE LET h == Head(cs)
         IN  IF h.op = "setEnabled"
             THEN h.arg # en[h.ctx]
                  /\ Alternates([en EXCEPT ![h.ctx] = h.arg], Tail(cs))
             ELSE Alternates(en, Tail(cs))

\* C25: consecutive setEnabled calls delivered to the same context alternate in
\* value: no setEnabled(true) reaches a context whose last setEnabled was true,
\* no setEnabled(false) one whose last was false or that never had one.
C25_Claim == [][Alternates(ctxEnabled, calls')]_vars

\* C26: PayloadInfo equality is symmetric: a == b has the result of b == a.
C26_Claim ==
    valop.op = "==" => (valop.same <=> PayloadInfoEq(valop.b, valop.a))

\* C27: the counter readyReadListeners is 0 on construction and always equals
\* the readyRead subscriptions made minus those removed, never negative; a
\* channel nobody has subscribed to is not enabled by the binding at started.
C27_Claim ==
    \A ch \in Channels :
        /\ chan[ch].readyReadListeners = listeners[ch]
        /\ chan[ch].readyReadListeners >= 0
        /\ last.op = "started" /\ listeners[ch] = 0 => ~chan[ch].enabled

\* C21: every Features accessor returns the list of the last completed query,
\* the empty list before any lookup() has completed, also while a lookup is
\* running: never a list the running query has already stored.
C21_Claim ==
    feat.got.name # "none" => feat.got.value = feat.got.completed

====
